---- MODULE Spec2Model ----
(***************************************************************************)
(* compute_sales.py: load a price catalogue and a sales record (JSON),     *)
(* build a product -> price dictionary, fold the sales against it, print   *)
(* a summary and write it to SalesResults.txt.                             *)
(*                                                                         *)
(* Numbers are integers here: Python floats are abstracted to exact        *)
(* integer arithmetic, so rounding, inf and nan are outside the model.     *)
(***************************************************************************)
EXTENDS Integers, Sequences, FiniteSets, TLC

VARIABLES
    argc,         \* len(sys.argv)
    price_file,   \* the file named by sys.argv[1]: [st, doc]
    sales_file,   \* the file named by sys.argv[2]: [st, doc]
    write_env,    \* what opening/writing SalesResults.txt will do
    result_file,  \* SalesResults.txt on disk
    pc,           \* position in the program
    price_data,   \* main: price_data / build_price_dict: its argument
    sales_data,   \* main: sales_data / compute_total_sales: its argument
    price_dict,   \* the product -> price dictionary
    total,        \* compute_total_sales: total, then main: total_sales
    out,          \* everything printed to the console, in order
    i,            \* position of the outer for loop (entry or sale)
    j,            \* position of the inner for loop (item)
    items,        \* compute_total_sales: items of the current sale
    raised,       \* the exception propagating, "" when none
    exit_status,  \* process exit status, -1 while running
    called,       \* the functions main has called so far
    run,          \* which call of compute_total_sales is running (1 or 2)
    base_total,   \* the value the first call returned
    added         \* the line item the second call's input has in addition

vars == <<argc, price_file, sales_file, write_env, result_file, pc, price_data,
          sales_data, price_dict, total, out, i, j, items, raised, exit_status,
          called, run, base_total, added>>

---------------------------------------------------------------------------
\* Bounds of the inputs.
MaxEntries == 3   \* catalogue entries
MaxSales == 2     \* transactions in the sales record
MaxItems == 2     \* line items in the whole sales record

---------------------------------------------------------------------------
\* JSON values as json.load returns them. A scalar field value is
\* [t, n, s]: its Python type, its number, its characters.
Num(n) == [t |-> "num", n |-> n, s |-> <<>>]
Str(s) == [t |-> "str", n |-> 0, s |-> s]
Bool(b) == [t |-> "bool", n |-> IF b THEN 1 ELSE 0, s |-> <<>>]
Null == [t |-> "null", n |-> 0, s |-> <<>>]
\* an integer literal beyond the range of a float
BigInt == [t |-> "bigint", n |-> 0, s |-> <<>>]
\* a JSON array or object where a scalar is expected
JList == [t |-> "list", n |-> 0, s |-> <<>>]
\* the key is not in the map
Missing == [t |-> "missing", n |-> 0, s |-> <<>>]

Digits == {"0", "1", "2", "3", "4", "5", "6", "7", "8", "9"}

DigitVal(c) ==
    CASE c = "0" -> 0 [] c = "1" -> 1 [] c = "2" -> 2 [] c = "3" -> 3
      [] c = "4" -> 4 [] c = "5" -> 5 [] c = "6" -> 6 [] c = "7" -> 7
      [] c = "8" -> 8 [] c = "9" -> 9

RECURSIVE DigitsValue(_)
DigitsValue(s) ==
    IF s = <<>> THEN 0
    ELSE 10 * DigitsValue(SubSeq(s, 1, Len(s) - 1)) + DigitVal(s[Len(s)])

AllDigits(s) == s # <<>> /\ \A k \in 1..Len(s) : s[k] \in Digits

\* float(<str>), for strings of an optional sign and decimal digits
ParseFloat(s) ==
    IF s # <<>> /\ s[1] \in {"-", "+"}
    THEN IF AllDigits(Tail(s))
         THEN [exc |-> "", val |-> IF s[1] = "-" THEN 0 - DigitsValue(Tail(s))
                                   ELSE DigitsValue(Tail(s))]
         ELSE [exc |-> "ValueError", val |-> 0]
    ELSE IF AllDigits(s) THEN [exc |-> "", val |-> DigitsValue(s)]
         ELSE [exc |-> "ValueError", val |-> 0]

\* float(v): the value, or the exception it raises
Float(v) ==
    CASE v.t = "num" -> [exc |-> "", val |-> v.n]
      [] v.t = "bool" -> [exc |-> "", val |-> v.n]
      [] v.t = "str" -> ParseFloat(v.s)
      [] v.t = "bigint" -> [exc |-> "OverflowError", val |-> 0]
      [] OTHER -> [exc |-> "TypeError", val |-> 0]

\* the exceptions both except clauses name
Caught == {"KeyError", "ValueError", "TypeError"}

\* dictionary keys: lists and dicts are unhashable, True and 1 are one key
Hashable(v) == v.t \in {"num", "str", "bool", "null", "bigint"}
KeyOf(v) == IF v.t = "bool" THEN Num(v.n) ELSE v

EmptyDict == [k \in {} |-> 0]

\* price_dict[product] = price, with the first-write-wins and the
\* dictionary-replacing variants of it
DictPutKeepFirst(pd, k, v) ==
    [x \in DOMAIN pd \cup {k} |-> IF x \in DOMAIN pd THEN pd[x] ELSE v]
DictPutAlone(pd, k, v) == [x \in {k} |-> v]
DictPut(pd, k, v) == [x \in DOMAIN pd \cup {k} |-> IF x = k THEN v ELSE pd[x]]

\* print(...) appends one line (or block) to the console; the variant
\* puts it first
EmitFirst(o, d) == <<d>> \o o
Emit(o, d) == Append(o, d)

Diag(k, u) == [k |-> k, u |-> u]

\* A document: a list of elements, or something else. Iterating a dict
\* yields its keys and iterating a str its characters (elems holds them);
\* a number is not iterable; JSON null is Python's None.
ListDoc(es) == [t |-> "list", elems |-> es]
None == [t |-> "null", elems |-> <<>>]
NumDoc == [t |-> "num", elems |-> <<>>]
Unbound == [t |-> "unbound", elems |-> <<>>]
Iterable(d) == d.t \in {"list", "map", "str"}

---------------------------------------------------------------------------
\* build_price_dict

\* a catalogue entry: a map with (maybe) product and price, or another value
MapEntry(p, pr) == [t |-> "map", product |-> p, price |-> pr]
OtherEntry(t) == [t |-> t, product |-> Missing, price |-> Missing]

\* the try body, lines 47-49: the exception it raises, "" when none
EntryExc(entry) ==
    IF entry.t # "map" THEN "TypeError"
    ELSE IF entry.product.t = "missing" THEN "KeyError"
    ELSE IF entry.price.t = "missing" THEN "KeyError"
    ELSE IF Float(entry.price).exc # "" THEN Float(entry.price).exc
    ELSE IF ~Hashable(entry.product) THEN "TypeError"
    ELSE ""

\* one iteration of the loop of build_price_dict, or the for statement
\* failing on a value that is not iterable
ForEntry ==
    /\ pc = "build_for"
    /\ ~(Iterable(price_data) /\ i > Len(price_data.elems))
    /\ IF ~Iterable(price_data)
       THEN /\ raised' = "TypeError"
            /\ pc' = "raised"
            /\ UNCHANGED <<price_dict, out, i>>
       ELSE LET entry == price_data.elems[i]
                exc == EntryExc(entry)
            IN IF exc = ""
               THEN /\ price_dict' = DictPut(price_dict, KeyOf(entry.product),
                                             Float(entry.price).val)
                    /\ i' = i + 1
                    /\ UNCHANGED <<out, raised, pc>>
               ELSE IF exc \in Caught
               THEN /\ out' = Emit(out, Diag("WARNING: Invalid price entry skipped", entry))
                    /\ i' = i + 1
                    /\ UNCHANGED <<price_dict, raised, pc>>
               ELSE /\ raised' = exc
                    /\ pc' = "raised"
                    /\ UNCHANGED <<price_dict, out, i>>
    /\ UNCHANGED <<argc, price_file, sales_file, write_env, result_file,
                   price_data, sales_data, total, j, items, exit_status,
                   called, run, base_total, added>>

\* return price_dict, and main's call of compute_total_sales (total = 0.0)
ReturnPriceDict ==
    /\ pc = "build_for"
    /\ Iterable(price_data) /\ i > Len(price_data.elems)
    /\ pc' = "sales_for"
    /\ called' = called \cup {"compute_total_sales"}
    /\ total' = 0
    /\ i' = 1
    /\ j' = 1
    /\ UNCHANGED <<argc, price_file, sales_file, write_env, result_file,
                   price_data, sales_data, price_dict, out, items, raised,
                   exit_status, run, base_total, added>>

---------------------------------------------------------------------------
\* compute_total_sales

\* a line item: a map with (maybe) product and quantity, or another value
Item(p, q) == [t |-> "map", product |-> p, quantity |-> q]
OtherItem(t) == [t |-> t, product |-> Missing, quantity |-> Missing]

\* the value under "items": a list of items, or something else. elems holds
\* what iterating the value yields (the characters of a str)
ItemList(es) == [t |-> "list", elems |-> es]
NoItemsKey == [t |-> "missing", elems |-> <<>>]
\* the string "bad": its characters are three str values
StrItems == [t |-> "str", elems |-> <<OtherItem("str"), OtherItem("str"), OtherItem("str")>>]

\* a transaction: a map with (maybe) items, or another value
Sale(its) == [t |-> "map", items |-> its]
OtherSale(t) == [t |-> t, items |-> NoItemsKey]

\* sale.get("items", []) and sale.get("items"): the default used when the
\* key is absent
ItemsOfNoDefault(sale) == IF sale.items.t = "missing" THEN None ELSE sale.items
ItemsOf(sale) == IF sale.items.t = "missing" THEN ItemList(<<>>) ELSE sale.items

\* isinstance(items, list)
IsList(its) == its.t = "list"

\* price_dict[product] * quantity, and the variant that drops the quantity
LineTotalPriceOnly(price, quantity) == price
LineTotal(price, quantity) == price * quantity

\* lines 76-79 up to the membership test: the exception raised, "" when none
ItemExc(item) ==
    IF item.t # "map" THEN "TypeError"
    ELSE IF item.product.t = "missing" THEN "KeyError"
    ELSE IF item.quantity.t = "missing" THEN "KeyError"
    ELSE IF Float(item.quantity).exc # "" THEN Float(item.quantity).exc
    ELSE IF ~Hashable(item.product) THEN "TypeError"
    ELSE ""

\* one iteration of the outer loop up to the inner for (lines 68-72), or
\* the for statement or sale.get failing
ForSale ==
    /\ pc = "sales_for"
    /\ ~(Iterable(sales_data) /\ i > Len(sales_data.elems))
    /\ IF ~Iterable(sales_data)
       THEN /\ raised' = "TypeError"
            /\ pc' = "raised"
            /\ UNCHANGED <<out, i, j, items>>
       ELSE LET sale == sales_data.elems[i]
            IN IF sale.t # "map"
               THEN /\ raised' = "AttributeError"
                    /\ pc' = "raised"
                    /\ UNCHANGED <<out, i, j, items>>
               ELSE IF ~IsList(ItemsOf(sale))
               THEN /\ out' = Emit(out, Diag("WARNING: Invalid items format in sale", sale))
                    /\ i' = i + 1
                    /\ UNCHANGED <<pc, raised, j, items>>
               ELSE /\ items' = ItemsOf(sale).elems
                    /\ j' = 1
                    /\ pc' = "items_for"
                    /\ UNCHANGED <<out, i, raised>>
    /\ UNCHANGED <<argc, price_file, sales_file, write_env, result_file,
                   price_data, sales_data, price_dict, total, exit_status,
                   called, run, base_total, added>>

\* one iteration of the inner loop (lines 74-86)
ForItem ==
    /\ pc = "items_for"
    /\ j <= Len(items)
    /\ LET item == items[j]
           exc == ItemExc(item)
       IN IF exc = "" /\ KeyOf(item.product) \in DOMAIN price_dict
          THEN /\ total' = total + LineTotal(price_dict[KeyOf(item.product)],
                                             Float(item.quantity).val)
               /\ j' = j + 1
               /\ UNCHANGED <<out, raised, pc>>
          ELSE IF exc = ""
          THEN /\ out' = Emit(out, Diag("WARNING: Product not in catalogue", item.product))
               /\ j' = j + 1
               /\ UNCHANGED <<total, raised, pc>>
          ELSE IF exc \in Caught
          THEN /\ out' = Emit(out, Diag("WARNING: Invalid sale item skipped", item))
               /\ j' = j + 1
               /\ UNCHANGED <<total, raised, pc>>
          ELSE /\ raised' = exc
               /\ pc' = "raised"
               /\ UNCHANGED <<total, out, j>>
    /\ UNCHANGED <<argc, price_file, sales_file, write_env, result_file,
                   price_data, sales_data, price_dict, i, items, exit_status,
                   called, run, base_total, added>>

\* the inner loop is exhausted: on to the next sale
ItemsDone ==
    /\ pc = "items_for"
    /\ j > Len(items)
    /\ pc' = "sales_for"
    /\ i' = i + 1
    /\ UNCHANGED <<argc, price_file, sales_file, write_env, result_file,
                   price_data, sales_data, price_dict, total, out, j, items,
                   raised, exit_status, called, run, base_total, added>>

\* return total (line 88), back in main at line 129
ReturnTotal ==
    /\ pc = "sales_for"
    /\ Iterable(sales_data) /\ i > Len(sales_data.elems)
    /\ pc' = "elapsed"
    /\ UNCHANGED <<argc, price_file, sales_file, write_env, result_file,
                   price_data, sales_data, price_dict, total, out, i, j, items,
                   raised, exit_status, called, run, base_total, added>>

---------------------------------------------------------------------------
\* load_json_file, write_results, main

File(st, doc) == [st |-> st, doc |-> doc]

\* load_json_file(filename): the value returned, the line printed, or the
\* exception no except clause names (undecodable bytes)
LoadJsonFile(f, filename) ==
    CASE f.st = "ok" -> [val |-> f.doc, msg |-> <<>>, exc |-> ""]
      [] f.st = "missing" ->
            [val |-> None, msg |-> <<Diag("ERROR: File not found", filename)>>, exc |-> ""]
      [] f.st = "badjson" ->
            [val |-> None, msg |-> <<Diag("ERROR: File contains invalid JSON", filename)>>,
             exc |-> ""]
      [] f.st = "oserror" ->
            [val |-> None, msg |-> <<Diag("ERROR: Cannot open file", filename)>>, exc |-> ""]
      [] f.st = "notutf8" -> [val |-> None, msg |-> <<>>, exc |-> "UnicodeDecodeError"]

\* lines 108-118
CheckArgs ==
    /\ pc = "start"
    /\ IF argc # 3
       THEN /\ out' = Emit(out, Diag("Usage", "computeSales.py"))
            /\ exit_status' = 1
            /\ pc' = "exited"
       ELSE /\ pc' = "load_price"
            /\ UNCHANGED <<out, exit_status>>
    /\ UNCHANGED <<argc, price_file, sales_file, write_env, result_file,
                   price_data, sales_data, price_dict, total, i, j, items,
                   raised, called, run, base_total, added>>

\* line 120
LoadPrice ==
    /\ pc = "load_price"
    /\ LET r == LoadJsonFile(price_file, "sys.argv[1]")
       IN IF r.exc # ""
          THEN /\ raised' = r.exc
               /\ pc' = "raised"
               /\ UNCHANGED <<price_data, out>>
          ELSE /\ price_data' = r.val
               /\ out' = IF r.msg = <<>> THEN out ELSE Emit(out, r.msg[1])
               /\ pc' = "load_sales"
               /\ UNCHANGED raised
    /\ UNCHANGED <<argc, price_file, sales_file, write_env, result_file,
                   sales_data, price_dict, total, i, j, items, exit_status,
                   called, run, base_total, added>>

\* line 121
LoadSales ==
    /\ pc = "load_sales"
    /\ LET r == LoadJsonFile(sales_file, "sys.argv[2]")
       IN IF r.exc # ""
          THEN /\ raised' = r.exc
               /\ pc' = "raised"
               /\ UNCHANGED <<sales_data, out>>
          ELSE /\ sales_data' = r.val
               /\ out' = IF r.msg = <<>> THEN out ELSE Emit(out, r.msg[1])
               /\ pc' = "check"
               /\ UNCHANGED raised
    /\ UNCHANGED <<argc, price_file, sales_file, write_env, result_file,
                   price_data, price_dict, total, i, j, items, exit_status,
                   called, run, base_total, added>>

\* line 123: price_data is None or sales_data is None, and the variant
\* with "and"
LoadFailedBoth(pd, sd) == pd = None /\ sd = None
LoadFailed(pd, sd) == pd = None \/ sd = None

\* lines 123-126: exit, or call build_price_dict (price_dict = {})
CheckLoaded ==
    /\ pc = "check"
    /\ IF LoadFailed(price_data, sales_data)
       THEN /\ exit_status' = 1
            /\ pc' = "exited"
            /\ UNCHANGED <<called, price_dict, i>>
       ELSE /\ called' = called \cup {"build_price_dict"}
            /\ price_dict' = EmptyDict
            /\ i' = 1
            /\ pc' = "build_for"
            /\ UNCHANGED exit_status
    /\ UNCHANGED <<argc, price_file, sales_file, write_env, result_file,
                   price_data, sales_data, total, out, j, items, raised,
                   run, base_total, added>>

\* lines 129-138: the summary is formatted and printed
PrintSummary ==
    /\ pc = "elapsed"
    /\ out' = Emit(out, Diag("SALES SUMMARY", total))
    /\ called' = called \cup {"print_summary"}
    /\ pc' = "write"
    /\ UNCHANGED <<argc, price_file, sales_file, write_env, result_file,
                   price_data, sales_data, price_dict, total, i, j, items,
                   raised, exit_status, run, base_total, added>>

\* write_results with no except clause: the OSError propagates
WriteResultsNoExcept ==
    /\ pc = "write"
    /\ called' = called \cup {"write_results"}
    /\ IF write_env = "ok"
       THEN /\ result_file' = [st |-> "summary", total |-> total]
            /\ pc' = "main_return"
            /\ UNCHANGED raised
       ELSE /\ result_file' = IF write_env = "write_fail"
                              THEN [st |-> "partial", total |-> 0]
                              ELSE result_file
            /\ raised' = "OSError"
            /\ pc' = "raised"
    /\ UNCHANGED <<argc, price_file, sales_file, write_env, price_data,
                   sales_data, price_dict, total, out, i, j, items,
                   exit_status, run, base_total, added>>

\* line 139 and write_results: open(RESULT_FILE, "w") may fail (the file is
\* untouched), file.write may fail (the file is truncated), both OSError
WriteResults ==
    /\ pc = "write"
    /\ called' = called \cup {"write_results"}
    /\ CASE write_env = "ok" ->
              /\ result_file' = [st |-> "summary", total |-> total]
              /\ UNCHANGED out
         [] write_env = "open_fail" ->
              /\ out' = Emit(out, Diag("ERROR: Could not write results file", "open"))
              /\ UNCHANGED result_file
         [] write_env = "write_fail" ->
              /\ out' = Emit(out, Diag("ERROR: Could not write results file", "write"))
              /\ result_file' = [st |-> "partial", total |-> 0]
    /\ pc' = "main_return"
    /\ UNCHANGED <<argc, price_file, sales_file, write_env, price_data,
                   sales_data, price_dict, total, i, j, items, raised,
                   exit_status, run, base_total, added>>

\* main returns: the interpreter exits with status 0
MainReturn ==
    /\ pc = "main_return"
    /\ exit_status' = 0
    /\ pc' = "exited"
    /\ UNCHANGED <<argc, price_file, sales_file, write_env, result_file,
                   price_data, sales_data, price_dict, total, out, i, j, items,
                   raised, called, run, base_total, added>>

\* an exception nothing catches: traceback on stderr, exit status 1
Uncaught ==
    /\ pc = "raised"
    /\ exit_status' = 1
    /\ pc' = "exited"
    /\ UNCHANGED <<argc, price_file, sales_file, write_env, result_file,
                   price_data, sales_data, price_dict, total, out, i, j, items,
                   raised, called, run, base_total, added>>

---------------------------------------------------------------------------
\* The inputs.

RECURSIVE SeqsOfLen(_, _)
SeqsOfLen(S, n) ==
    IF n = 0 THEN {<<>>}
    ELSE {Append(s, x) : s \in SeqsOfLen(S, n - 1), x \in S}

SeqsUpTo(S, n) == UNION {SeqsOfLen(S, k) : k \in 0..n}

A == Str(<<"A">>)
B == Str(<<"B">>)
Z == Str(<<"Z">>)

\* catalogue entries: valid ones (number, numeric string, repeated and
\* equal keys), and each way of being invalid
BuildEntries ==
    { MapEntry(A, Num(2)), MapEntry(A, Str(<<"1", "3">>)), MapEntry(A, Str(<<"x">>)),
      MapEntry(B, Num(5)), MapEntry(B, Null), MapEntry(Missing, Num(2)),
      MapEntry(A, Missing), MapEntry(JList, Num(2)), MapEntry(Bool(TRUE), Num(7)),
      MapEntry(Num(1), Num(8)), MapEntry(B, BigInt), OtherEntry("num") }

\* a JSON object as the catalogue: iterating it yields its keys
MapCatalogue == [t |-> "map", elems |-> <<OtherEntry("str"), OtherEntry("str")>>]

BuildCatalogues ==
    {ListDoc(es) : es \in SeqsUpTo(BuildEntries, MaxEntries)} \cup {NumDoc, MapCatalogue}

\* line items: valid and resolvable, valid and unknown, invalid in each way
SalesItems ==
    { Item(A, Num(2)), Item(A, Str(<<"1", "0">>)), Item(B, Num(-1)), Item(A, Str(<<"x">>)),
      Item(Z, Num(1)), Item(JList, Num(1)), Item(A, BigInt), OtherItem("num") }

\* transactions without a list of items: "items" a string, "items" absent,
\* and a transaction that is a number
OddSales == {Sale(StrItems), Sale(NoItemsKey), OtherSale("num")}

SalesOfSize(I, k) ==
    IF k = 0 THEN OddSales \cup {Sale(ItemList(<<>>))}
    ELSE {Sale(ItemList(es)) : es \in SeqsOfLen(I, k)}

\* the sequences of n transactions holding at most m line items
RECURSIVE SalesSeqs(_, _, _)
SalesSeqs(I, n, m) ==
    IF n = 0 THEN {<<>>}
    ELSE UNION { { <<t>> \o s : t \in SalesOfSize(I, k), s \in SalesSeqs(I, n - 1, m - k) }
                 : k \in 0..m }

\* a JSON object as the sales record: iterating it yields its keys
MapSales == [t |-> "map", elems |-> <<OtherSale("str")>>]

SalesRecords(I) ==
    {ListDoc(ss) : ss \in UNION {SalesSeqs(I, n, MaxItems) : n \in 0..MaxSales}}
        \cup {NumDoc, MapSales}

Dict1(k1, v1) == DictPut(EmptyDict, k1, v1)
Dict2(k1, v1, k2, v2) == DictPut(Dict1(k1, v1), k2, v2)

\* price dictionaries build_price_dict can return; prices are not checked
\* for sign
PriceDicts == {EmptyDict, Dict2(A, 2, B, 3)}
SignedPriceDicts == {Dict2(A, 2, B, 3), Dict2(A, -2, B, 0)}

NoAdded == [sale |-> 0, at |-> 0, item |-> OtherItem("num")]
NoFile == File("missing", None)
NoResultFile == [st |-> "absent", total |-> 0]
OldResultFile == [st |-> "old", total |-> 0]

---------------------------------------------------------------------------
\* build_price_dict called on a catalogue
InitBuild ==
    /\ pc = "build_for"
    /\ price_data \in BuildCatalogues
    /\ price_dict = EmptyDict
    /\ i = 1
    /\ called = {"build_price_dict"}
    /\ sales_data = ListDoc(<<>>)
    /\ argc = 3 /\ price_file = NoFile /\ sales_file = NoFile
    /\ write_env = "ok" /\ result_file = NoResultFile
    /\ total = 0 /\ out = <<>> /\ j = 1 /\ items = <<>>
    /\ raised = "" /\ exit_status = -1
    /\ run = 1 /\ base_total = 0 /\ added = NoAdded

NextBuild == ForEntry \/ ReturnPriceDict

SpecBuild == InitBuild /\ [][NextBuild]_vars

\* compute_total_sales called on a sales record and a price dictionary
InitSales ==
    /\ pc = "sales_for"
    /\ sales_data \in SalesRecords(SalesItems)
    /\ price_dict \in PriceDicts
    /\ total = 0
    /\ i = 1 /\ j = 1 /\ items = <<>>
    /\ called = {"compute_total_sales"}
    /\ price_data = ListDoc(<<>>)
    /\ argc = 3 /\ price_file = NoFile /\ sales_file = NoFile
    /\ write_env = "ok" /\ result_file = NoResultFile
    /\ out = <<>> /\ raised = "" /\ exit_status = -1
    /\ run = 1 /\ base_total = 0 /\ added = NoAdded

NextSales == ForSale \/ ForItem \/ ItemsDone \/ ReturnTotal

SpecSales == InitSales /\ [][NextSales]_vars

\* compute_total_sales called twice: on a sales record, then on the same
\* record with one valid line item, whose product is in price_dict, added to
\* one of its lists of items
MonoItems == {Item(A, Num(2)), Item(A, Str(<<"x">>)), Item(Z, Num(1))}
AddedItems == {Item(A, Num(3)), Item(B, Num(0)), Item(B, Str(<<"-", "1">>))}

InsertAt(s, k, x) == SubSeq(s, 1, k - 1) \o <<x>> \o SubSeq(s, k, Len(s))

AddItem(doc, ad) ==
    ListDoc([doc.elems EXCEPT ![ad.sale] =
                Sale(ItemList(InsertAt(@.items.elems, ad.at, ad.item)))])

Additions(doc, pd) ==
    UNION { { [sale |-> a, at |-> b, item |-> it] :
                b \in 1..(Len(doc.elems[a].items.elems) + 1),
                it \in {x \in AddedItems : KeyOf(x.product) \in DOMAIN pd} }
            : a \in {n \in 1..Len(doc.elems) :
                        doc.elems[n].t = "map" /\ doc.elems[n].items.t = "list"} }

InitMono ==
    /\ pc = "sales_for"
    /\ sales_data \in {d \in SalesRecords(MonoItems) : d.t = "list"}
    /\ price_dict \in SignedPriceDicts
    /\ added \in Additions(sales_data, price_dict)
    /\ run = 1 /\ base_total = 0
    /\ total = 0
    /\ i = 1 /\ j = 1 /\ items = <<>>
    /\ called = {"compute_total_sales"}
    /\ price_data = ListDoc(<<>>)
    /\ argc = 3 /\ price_file = NoFile /\ sales_file = NoFile
    /\ write_env = "ok" /\ result_file = NoResultFile
    /\ out = <<>> /\ raised = "" /\ exit_status = -1

\* the first call has returned: call again on the extended record
Rerun ==
    /\ pc = "elapsed"
    /\ run = 1
    /\ run' = 2
    /\ base_total' = total
    /\ sales_data' = AddItem(sales_data, added)
    /\ total' = 0
    /\ i' = 1 /\ j' = 1 /\ items' = <<>>
    /\ out' = <<>>
    /\ pc' = "sales_for"
    /\ UNCHANGED <<argc, price_file, sales_file, write_env, result_file,
                   price_data, price_dict, raised, exit_status, called, added>>

NextMono == ForSale \/ ForItem \/ ItemsDone \/ ReturnTotal \/ Rerun

SpecMono == InitMono /\ [][NextMono]_vars

\* main, from the command line to the exit status
MainCatalogues ==
    { ListDoc(<<>>),
      ListDoc(<<MapEntry(A, Num(2))>>),
      ListDoc(<<MapEntry(A, Str(<<"x">>)), MapEntry(A, Num(2)), MapEntry(B, Null)>>),
      NumDoc, None }

MainItems == {Item(A, Num(2)), Item(A, Str(<<"x">>)), Item(Z, Num(1))}

FailedFiles ==
    {File("missing", None), File("badjson", None), File("oserror", None),
     File("notutf8", None)}

PriceFiles == {File("ok", d) : d \in MainCatalogues} \cup FailedFiles
SalesFiles == {File("ok", d) : d \in SalesRecords(MainItems) \cup {None}} \cup FailedFiles

Init ==
    /\ argc \in {2, 3}
    /\ price_file \in PriceFiles
    /\ sales_file \in SalesFiles
    /\ argc # 3 => price_file = NoFile /\ sales_file = NoFile
    /\ \E e \in { <<"ok", NoResultFile>>, <<"ok", OldResultFile>>,
                  <<"open_fail", OldResultFile>>, <<"write_fail", OldResultFile>> } :
          write_env = e[1] /\ result_file = e[2]
    /\ pc = "start"
    /\ price_data = Unbound /\ sales_data = Unbound
    /\ price_dict = EmptyDict
    /\ total = 0 /\ out = <<>>
    /\ i = 1 /\ j = 1 /\ items = <<>>
    /\ raised = "" /\ exit_status = -1
    /\ called = {}
    /\ run = 1 /\ base_total = 0 /\ added = NoAdded

Next ==
    \/ CheckArgs \/ LoadPrice \/ LoadSales \/ CheckLoaded
    \/ ForEntry \/ ReturnPriceDict
    \/ ForSale \/ ForItem \/ ItemsDone \/ ReturnTotal
    \/ PrintSummary \/ WriteResults \/ MainReturn \/ Uncaught

Spec == Init /\ [][Next]_vars

---------------------------------------------------------------------------
\* Properties of build_price_dict (SpecBuild).

\* build_price_dict has returned (main is at the call of compute_total_sales)
BuildReturned == pc = "sales_for" /\ price_data.t = "list"

SetMax(S) == CHOOSE x \in S : \A y \in S : y <= x
SetMin(S) == CHOOSE x \in S : \A y \in S : x <= y

\* the entry is a map that has a product key, a hashable one
HasProduct(e) == e.t = "map" /\ e.product.t # "missing" /\ Hashable(e.product)
\* the entry has a price that float() accepts
PriceCoercible(e) == e.t = "map" /\ e.price.t # "missing" /\ Float(e.price).exc = ""

\* the positions of the catalogue at which product key k occurs
Occurrences(k) ==
    {n \in 1..Len(price_data.elems) :
        HasProduct(price_data.elems[n]) /\ KeyOf(price_data.elems[n].product) = k}
ValidOccurrences(k) == {n \in Occurrences(k) : PriceCoercible(price_data.elems[n])}
ProductKeys ==
    {KeyOf(price_data.elems[n].product) :
        n \in {m \in 1..Len(price_data.elems) : HasProduct(price_data.elems[m])}}
RepeatedKeys == {k \in ProductKeys : Cardinality(Occurrences(k)) >= 2}

\* C5 as stated: a product that occurs in more than one entry is mapped to
\* the price of its last occurrence in the catalogue.
C5_LastOccurrenceWins ==
    BuildReturned =>
        \A k \in RepeatedKeys :
            LET last == price_data.elems[SetMax(Occurrences(k))]
            IN k \in DOMAIN price_dict =>
                  /\ PriceCoercible(last)
                  /\ price_dict[k] = Float(last.price).val

\* C5 amended: a product that occurs in more than one entry is mapped to the
\* float of the price of its last occurrence whose price is coercible to a
\* number (occurrences with an invalid price are skipped and leave the earlier
\* price in place); it is not mapped at all when no occurrence has such a price.
C5_LastValidOccurrenceWins ==
    BuildReturned =>
        \A k \in RepeatedKeys :
            IF ValidOccurrences(k) = {}
            THEN k \notin DOMAIN price_dict
            ELSE /\ k \in DOMAIN price_dict
                 /\ price_dict[k] =
                        Float(price_data.elems[SetMax(ValidOccurrences(k))].price).val

\* a product occurred twice with different valid prices, and build_price_dict
\* returned
C5_Witness ==
    /\ BuildReturned
    /\ \E k \in RepeatedKeys :
          /\ Cardinality(ValidOccurrences(k)) >= 2
          /\ Float(price_data.elems[SetMin(ValidOccurrences(k))].price).val
                # Float(price_data.elems[SetMax(ValidOccurrences(k))].price).val
          /\ SetMax(ValidOccurrences(k)) < SetMax(Occurrences(k))

\* every entry of the catalogue is valid: product key present (and hashable),
\* price coercible to a number
AllEntriesValid ==
    \A n \in 1..Len(price_data.elems) :
        HasProduct(price_data.elems[n]) /\ PriceCoercible(price_data.elems[n])

\* C6 as stated: a catalogue of N valid entries and no invalid entry yields a
\* mapping of exactly N keys.
C6_ExactlyNKeys ==
    (BuildReturned /\ AllEntriesValid) =>
        Cardinality(DOMAIN price_dict) = Len(price_data.elems)

\* C6 amended: a catalogue of N valid entries and no invalid entry yields a
\* mapping with one key per distinct product of the catalogue: exactly N keys
\* when no product occurs twice, fewer than N when one does.
C6_OneKeyPerDistinctProduct ==
    (BuildReturned /\ AllEntriesValid) =>
        /\ DOMAIN price_dict = ProductKeys
        /\ Cardinality(DOMAIN price_dict) = Cardinality(ProductKeys)
        /\ RepeatedKeys = {} => Cardinality(DOMAIN price_dict) = Len(price_data.elems)
        /\ RepeatedKeys # {} => Cardinality(DOMAIN price_dict) < Len(price_data.elems)

\* three valid entries, two of them for the same product: two keys
C6_Witness ==
    /\ BuildReturned
    /\ AllEntriesValid
    /\ Len(price_data.elems) = 3
    /\ Cardinality(DOMAIN price_dict) = 2

---------------------------------------------------------------------------
\* Properties of compute_total_sales (SpecSales, SpecMono).

\* compute_total_sales has returned (main is at line 129)
SalesReturned == pc = "elapsed"

\* the line item counts: its transaction's items is a list, it has a product
\* key and a quantity coercible to a number, its product is a key of the index
Counts(sale, item) ==
    /\ sale.t = "map" /\ sale.items.t = "list"
    /\ item.t = "map" /\ item.product.t # "missing" /\ item.quantity.t # "missing"
    /\ Float(item.quantity).exc = ""
    /\ Hashable(item.product) /\ KeyOf(item.product) \in DOMAIN price_dict

\* the positions <<sale, item>> of the line items that count
CountedItems ==
    {p \in UNION { {<<a, b>> : b \in 1..Len(sales_data.elems[a].items.elems)}
                   : a \in 1..Len(sales_data.elems) } :
        Counts(sales_data.elems[p[1]], sales_data.elems[p[1]].items.elems[p[2]])}

RECURSIVE SumOfItems(_)
SumOfItems(P) ==
    IF P = {} THEN 0
    ELSE LET p == CHOOSE x \in P : TRUE
             item == sales_data.elems[p[1]].items.elems[p[2]]
         IN price_dict[KeyOf(item.product)] * Float(item.quantity).val
                + SumOfItems(P \ {p})

\* C1: the value compute_total_sales returns is the sum of price * quantity
\* over exactly the line items that count, and 0 when none does.
C1_TotalIsSumOfCountedItems ==
    SalesReturned =>
        /\ total = SumOfItems(CountedItems)
        /\ CountedItems = {} => total = 0

\* a return with two counted items in the total and skipped ones beside them
C1_Witness ==
    /\ SalesReturned
    /\ Cardinality(CountedItems) = 2
    /\ total # 0
    /\ out # <<>>

\* C2 as stated: on a sequence of arbitrary records compute_total_sales never
\* raises.
C2_NeverRaises == sales_data.t = "list" => raised = ""

\* the loop is at transaction i
AtSale == pc = "sales_for" /\ Iterable(sales_data) /\ i <= Len(sales_data.elems)
InvalidItemsWarning(sale) == Diag("WARNING: Invalid items format in sale", sale)

\* C8 as stated: a transaction whose items field is absent or not a list gets
\* the 'Invalid items format' warning, none of its items is processed, and
\* the loop goes on to the next transaction.
C8_AbsentOrNotListWarns ==
    [][ (AtSale /\ sales_data.elems[i].t = "map"
            /\ sales_data.elems[i].items.t # "list")
        => /\ out' = Append(out, InvalidItemsWarning(sales_data.elems[i]))
           /\ total' = total
           /\ pc' = "sales_for" /\ i' = i + 1 ]_vars

\* C8 amended: a transaction whose items field is present and not a list gets
\* the 'Invalid items format' warning, none of its items is processed, and the
\* loop goes on to the next transaction; a transaction without an items field
\* gets no diagnostic and is processed as one with an empty list of items.
C8_PresentNotListWarns ==
    [][ (AtSale /\ sales_data.elems[i].t = "map")
        => /\ sales_data.elems[i].items.t \notin {"list", "missing"}
              => /\ out' = Append(out, InvalidItemsWarning(sales_data.elems[i]))
                 /\ total' = total
                 /\ pc' = "sales_for" /\ i' = i + 1
           /\ sales_data.elems[i].items.t = "missing"
              => /\ out' = out
                 /\ total' = total
                 /\ pc' = "items_for" /\ items' = <<>> /\ i' = i ]_vars

\* the warning for a transaction whose items is a string has just been
\* printed, and the loop is at the transaction after it
C8_Witness ==
    /\ AtSale
    /\ i > 1
    /\ sales_data.elems[i - 1].t = "map"
    /\ sales_data.elems[i - 1].items.t = "str"
    /\ out # <<>>
    /\ out[Len(out)] = InvalidItemsWarning(sales_data.elems[i - 1])

\* the price and the quantity of the added line item
AddedPrice == price_dict[KeyOf(added.item.product)]
AddedQuantity == Float(added.item.quantity).val

\* the second call has returned
BothReturned == run = 2 /\ pc = "elapsed"

\* C7 as stated: adding a valid, resolvable line item makes the result
\* strictly greater, or leaves it equal when the quantity is 0.
C7_Monotone ==
    BothReturned =>
        \/ total > base_total
        \/ AddedQuantity = 0 /\ total = base_total

\* C7 amended: adding a valid, resolvable line item to a list of items changes
\* the result by exactly price * quantity of that item (and the call returns
\* again): greater when price * quantity > 0, equal when it is 0, smaller when
\* it is negative; neither prices nor quantities are checked for sign.
C7_ChangesByPriceTimesQuantity ==
    /\ run = 2 => raised = ""
    /\ BothReturned =>
          /\ total = base_total + AddedPrice * AddedQuantity
          /\ AddedPrice * AddedQuantity > 0 => total > base_total
          /\ AddedPrice * AddedQuantity = 0 => total = base_total
          /\ AddedPrice * AddedQuantity < 0 => total < base_total

\* both calls returned, the first a non-zero total, and the item added in the
\* middle of a list raised it
C7_Witness ==
    /\ BothReturned
    /\ base_total # 0
    /\ total > base_total
    /\ AddedQuantity > 1

---------------------------------------------------------------------------
\* Properties of main (Spec).

Pipeline == {"build_price_dict", "compute_total_sales", "print_summary", "write_results"}

\* SalesResults.txt is as it was before the run
ResultFileUntouched == result_file.st \in {"absent", "old"}

\* C3: when load_json_file returned None for the catalogue or for the sales
\* record, the process exits with status 1, none of build_price_dict,
\* compute_total_sales, the summary print and write_results is executed, and
\* SalesResults.txt is neither created nor altered.
C3_LoadFailureExitsBeforePipeline ==
    (price_data = None \/ sales_data = None) =>
        /\ called \cap Pipeline = {}
        /\ ResultFileUntouched
        /\ pc \in {"load_sales", "check", "raised", "exited"}
        /\ exit_status \in {-1, 1}
        /\ pc = "exited" <=> exit_status = 1
        /\ pc # "exited" => ENABLED Next

\* the catalogue loaded, the sales record did not (its ERROR line is on the
\* console), and the process has exited
C3_Witness ==
    /\ pc = "exited"
    /\ exit_status = 1
    /\ price_data.t = "list"
    /\ sales_data = None
    /\ out # <<>>
    /\ raised = ""

\* C4 as stated: with two arguments naming readable files of valid JSON (here:
\* two JSON arrays), the run goes through the whole pipeline and exits with
\* status 0, whatever the documents hold.
C4_ValidJsonExitsZero ==
    (/\ pc = "exited" /\ argc = 3
     /\ price_file.st = "ok" /\ price_file.doc.t = "list"
     /\ sales_file.st = "ok" /\ sales_file.doc.t = "list")
    => exit_status = 0 /\ Pipeline \subseteq called

SummaryBlock == Diag("SALES SUMMARY", total)
IsWriteError(d) == d.k = "ERROR: Could not write results file"

\* C9: the summary is printed before the write to SalesResults.txt is
\* attempted; a failed write prints 'ERROR: Could not write results file'
\* after the summary, which stays as printed, and the exit status is still 0.
C9_SummaryBeforeWriteAndExitZero ==
    /\ pc = "write" => out # <<>> /\ out[Len(out)] = SummaryBlock
    /\ "write_results" \in called =>
          /\ "print_summary" \in called
          /\ raised = ""
          /\ pc \in {"main_return", "exited"}
          /\ pc = "exited" => exit_status = 0
          /\ IF write_env = "ok"
             THEN out[Len(out)] = SummaryBlock
             ELSE /\ Len(out) >= 2
                  /\ IsWriteError(out[Len(out)])
                  /\ out[Len(out) - 1] = SummaryBlock
                  /\ result_file.st # "summary"

\* the write failed after the file was opened, and the process has exited
\* with status 0
C9_Witness ==
    /\ pc = "exited"
    /\ exit_status = 0
    /\ write_env = "write_fail"
    /\ "write_results" \in called
    /\ Len(out) >= 3

\* the warnings a catalogue must produce, in catalogue order
RECURSIVE PriceWarnings(_)
PriceWarnings(es) ==
    IF es = <<>> THEN <<>>
    ELSE (IF HasProduct(Head(es)) /\ PriceCoercible(Head(es)) THEN <<>>
          ELSE <<Diag("WARNING: Invalid price entry skipped", Head(es))>>)
         \o PriceWarnings(Tail(es))

\* the warnings a list of items must produce, in item order
RECURSIVE ItemWarnings(_)
ItemWarnings(its) ==
    IF its = <<>> THEN <<>>
    ELSE LET item == Head(its)
             valid == /\ item.t = "map"
                      /\ item.product.t # "missing" /\ Hashable(item.product)
                      /\ item.quantity.t # "missing" /\ Float(item.quantity).exc = ""
         IN (IF ~valid THEN <<Diag("WARNING: Invalid sale item skipped", item)>>
             ELSE IF KeyOf(item.product) \notin DOMAIN price_dict
             THEN <<Diag("WARNING: Product not in catalogue", item.product)>>
             ELSE <<>>)
            \o ItemWarnings(Tail(its))

\* the warnings a sales record must produce, in transaction order
RECURSIVE SaleWarnings(_)
SaleWarnings(ss) ==
    IF ss = <<>> THEN <<>>
    ELSE (IF Head(ss).items.t = "missing" THEN <<>>
          ELSE IF Head(ss).items.t # "list" THEN <<InvalidItemsWarning(Head(ss))>>
          ELSE ItemWarnings(Head(ss).items.elems))
         \o SaleWarnings(Tail(ss))

SuccessfulRun == pc = "exited" /\ exit_status = 0

\* C10 as stated: in a successful run the console holds the warnings in the
\* order their units are met, one per skipped unit, and then the summary
\* block as the last output.
C10_SummaryIsLast ==
    SuccessfulRun =>
        out = PriceWarnings(price_data.elems) \o SaleWarnings(sales_data.elems)
                \o <<SummaryBlock>>

\* C10 amended: in a successful run the console holds the catalogue-entry
\* warnings in catalogue order, then the transaction and item warnings in
\* transaction and item order, one per skipped entry, per transaction whose
\* items is present and not a list, and per skipped item, then the summary
\* block; the summary is the last output unless the write of SalesResults.txt
\* fails, in which case the one line 'ERROR: Could not write results file'
\* follows it.
C10_WarningsThenSummaryThenWriteError ==
    SuccessfulRun =>
        out = PriceWarnings(price_data.elems) \o SaleWarnings(sales_data.elems)
                \o <<SummaryBlock>>
                \o (IF write_env = "ok" THEN <<>>
                    ELSE <<Diag("ERROR: Could not write results file",
                                IF write_env = "open_fail" THEN "open" ELSE "write")>>)

\* a successful run that printed two catalogue warnings and two different
\* warnings for the items of one transaction before the summary
C10_Witness ==
    /\ SuccessfulRun
    /\ write_env = "ok"
    /\ Len(PriceWarnings(price_data.elems)) = 2
    /\ Len(out) = 5
    /\ out[3].k # out[4].k
    /\ Len(sales_data.elems) = 1

====
